---- MODULE Spec2Model ----
(***************************************************************************)
(* TerrainLab: blank .mul container writers (AxonometricLabv0.py,          *)
(* emptyX.py, blank_art_bin.py) and the map reader (Map2TXT.py).           *)
(*                                                                         *)
(* A file body is kept as a sequence of runs, each run a byte string `unit`*)
(* repeated `count` times: this is exactly how the writers build their     *)
(* bodies (record * n, or a loop writing the same bytes n times).  Bytes   *)
(* are read back one by one with ByteAt, so lengths, offsets and contents  *)
(* are those of the flat file.                                             *)
(*                                                                         *)
(* Unsigned 32-bit values are kept as two 16-bit halves (hi, lo) because   *)
(* 0xFFFFFFFF does not fit TLC's 32-bit integers.                          *)
(***************************************************************************)
EXTENDS Integers, Sequences, FiniteSets, TLC

VARIABLES fs, fs0, prog, args, pc, err, rd, run

vars == <<fs, fs0, prog, args, pc, err, rd, run>>

(***************************************************************************)
(* Bounds of the model                                                     *)
(***************************************************************************)
MaxBlocks == 2
MaxEntries == 2
MaxCoord == 2

(***************************************************************************)
(* Byte strings and files                                                  *)
(***************************************************************************)
Max(a, b) == IF a >= b THEN a ELSE b
Min(a, b) == IF a <= b THEN a ELSE b

RECURSIVE Repeat(_, _)
Repeat(s, n) == IF n <= 0 THEN <<>> ELSE s \o Repeat(s, n - 1)

Zeros(n) == [i \in 1..n |-> 0]

\* bytes * n, or n writes of the same bytes; a non-positive n gives nothing
Run(unit, n) == IF n <= 0 \/ Len(unit) = 0 THEN <<>>
                ELSE << [unit |-> unit, count |-> n] >>

Absent == [exists |-> FALSE, data |-> <<>>]
File(data) == [exists |-> TRUE, data |-> data]

RECURSIVE DataLen(_)
DataLen(d) == IF d = <<>> THEN 0
              ELSE Len(Head(d).unit) * Head(d).count + DataLen(Tail(d))

RECURSIVE DataByteAt(_, _)
DataByteAt(d, i) ==
    LET n == Len(Head(d).unit) * Head(d).count
    IN  IF i < n THEN Head(d).unit[(i % Len(Head(d).unit)) + 1]
        ELSE DataByteAt(Tail(d), i - n)

FileLen(f) == DataLen(f.data)
ByteAt(f, i) == DataByteAt(f.data, i)

\* f.seek(pos); f.read(n): the bytes available from pos, at most n of them
FRead(f, pos, n) ==
    LET avail == Max(0, Min(n, FileLen(f) - pos))
    IN  [i \in 1..avail |-> ByteAt(f, pos + i - 1)]

FileBytes(f) == FRead(f, 0, FileLen(f))

(***************************************************************************)
(* struct.pack / struct.unpack, little-endian                              *)
(***************************************************************************)
U32(hi, lo) == [hi |-> hi, lo |-> lo]
PackH(v) == << v % 256, (v \div 256) % 256 >>
Packb(v) == << v % 256 >>
PackB(v) == << v % 256 >>
Packi(v) == << v % 256, (v \div 256) % 256, (v \div 65536) % 256,
               (v \div 16777216) % 256 >>
PackI(u) == PackH(u.lo) \o PackH(u.hi)

UnpackH(b) == b[1] + 256 * b[2]
\* variant: the altitude byte read as unsigned ("<HB")
Unpackb_unsigned(b) == b[1]

Unpackb(b) == IF b[1] >= 128 THEN b[1] - 256 ELSE b[1]
UnpackI(b) == U32(b[3] + 256 * b[4], b[1] + 256 * b[2])

\* struct.Struct("<Hb")
CELL_STRUCT_size == 3
CELL_STRUCT_pack(tile, alt) == PackH(tile) \o Packb(alt)
CELL_STRUCT_unpack(b) == << UnpackH(SubSeq(b, 1, 2)), Unpackb(SubSeq(b, 3, 3)) >>

(***************************************************************************)
(* AxonometricLabv0.py: file helpers                                       *)
(***************************************************************************)
Result(ok, f, e) == [ok |-> ok, fs |-> f, err |-> e]

\* if path.exists() and not force: raise FileExistsError; else write bytes
write_file(f, path, data, force) ==
    IF f[path].exists /\ ~force
    THEN Result(FALSE, f, "FileExistsError")
    ELSE Result(TRUE, [f EXCEPT ![path] = File(data)], "")

\* same check, then open("wb") and let the writer emit the body
write_streamed(f, path, data, force) ==
    IF f[path].exists /\ ~force
    THEN Result(FALSE, f, "FileExistsError")
    ELSE Result(TRUE, [f EXCEPT ![path] = File(data)], "")

\* variant: the positivity test left out
require_multiple_of_8_nopos(value) == value % 8 = 0

\* TRUE when the value passes; the code raises ValueError otherwise
require_multiple_of_8(value) ==
    IF value <= 0 THEN FALSE
    ELSE IF value % 8 # 0 THEN FALSE
    ELSE TRUE

(***************************************************************************)
(* art.mul / artidx.mul                                                    *)
(***************************************************************************)
NO_ART == U32(65535, 65535)
ZERO32 == U32(0, 0)
\* variant: the default of the other writer
ARTIDX_DEFAULT_stub == 16 * 4096
ARTIDX_DEFAULT == 81920

make_art_mul(f, force) == write_file(f, "art.mul", <<>>, force)

\* variant: the record packed without its third field ("<II")
ArtRecord_short == PackI(NO_ART) \o PackI(ZERO32)

\* struct.pack("<III", NO_ART, 0, 0)
ArtRecord == PackI(NO_ART) \o PackI(ZERO32) \o PackI(ZERO32)

make_artidx_mul(f, force, idx_entries) ==
    write_file(f, "artidx.mul", Run(ArtRecord, idx_entries), force)

(***************************************************************************)
(* tiledata.mul, hues.mul, radarcol.mul                                    *)
(***************************************************************************)
LAND_GROUPS == 512
STATIC_GROUPS == 2048
NAME20_ZERO == Zeros(20)
HUE_GROUPS_DEFAULT == 375
RADAR_ENTRIES == 65536

\* one land entry and one static entry, as the writer emits them field by field
LandEntry == PackI(ZERO32) \o PackH(0) \o NAME20_ZERO
StaticEntry == PackI(ZERO32) \o PackB(0) \o PackB(0) \o PackH(0) \o PackB(0)
               \o PackB(0) \o PackH(0) \o PackB(0) \o PackB(0) \o PackH(0)
               \o Packb(0) \o NAME20_ZERO
LandGroup == PackI(ZERO32) \o Repeat(LandEntry, 32)
StaticGroup == PackI(ZERO32) \o Repeat(StaticEntry, 32)

make_tiledata_mul(f, force) ==
    write_streamed(f, "tiledata.mul",
                   Run(LandGroup, LAND_GROUPS) \o Run(StaticGroup, STATIC_GROUPS),
                   force)

hue_entry == Zeros(32 * 2) \o PackH(0) \o PackH(0) \o Zeros(20)
HueGroup == PackI(ZERO32) \o Repeat(hue_entry, 8)

make_hues_mul(f, force, hue_groups) ==
    IF f["hues.mul"].exists /\ ~force
    THEN Result(FALSE, f, "FileExistsError")
    ELSE IF Len(hue_entry) # 88
    \* the writer raises after open("wb") has truncated the file
    THEN Result(FALSE, [f EXCEPT !["hues.mul"] = File(<<>>)], "RuntimeError")
    ELSE Result(TRUE, [f EXCEPT !["hues.mul"] = File(Run(HueGroup, hue_groups))], "")

make_radarcol_mul(f, force, entries) ==
    write_file(f, "radarcol.mul", Run(<<0, 0>>, entries), force)

(***************************************************************************)
(* map{facet}.mul / staidx{facet}.mul / statics{facet}.mul                 *)
(***************************************************************************)
MapPath(facet) == "map" \o ToString(facet) \o ".mul"
StaidxPath(facet) == "staidx" \o ToString(facet) \o ".mul"
StaticsPath(facet) == "statics" \o ToString(facet) \o ".mul"

BLOCK_SIZE_BYTES == 4 + 64 * 3
MAX_LAND == 16383

make_map_and_statics(f, force, facet, width, height, default_land, default_z) ==
    IF ~require_multiple_of_8(width) THEN Result(FALSE, f, "ValueError:map-width")
    ELSE IF ~require_multiple_of_8(height) THEN Result(FALSE, f, "ValueError:map-height")
    ELSE IF facet < 0 \/ facet > 255 THEN Result(FALSE, f, "ValueError:facet")
    ELSE IF default_land < 0 \/ default_land > MAX_LAND
         THEN Result(FALSE, f, "ValueError:default-land")
    ELSE IF default_z < -128 \/ default_z > 127
         THEN Result(FALSE, f, "ValueError:default-z")
    ELSE
    LET blocks_x == width \div 8
        blocks_y == height \div 8
        block_count == blocks_x * blocks_y
        tile_bytes == PackH(default_land) \o Packb(default_z)
        block_header == Packi(0)
        one_block == block_header \o Repeat(tile_bytes, 64)
        empty_staidx == Packi(-1) \o Packi(0) \o Packi(0)
    IN  IF Len(one_block) # 196 THEN Result(FALSE, f, "RuntimeError")
        ELSE
        LET r1 == write_streamed(f, MapPath(facet), Run(one_block, block_count), force)
            r2 == write_streamed(r1.fs, StaidxPath(facet),
                                 Run(empty_staidx, block_count), force)
            r3 == write_file(r2.fs, StaticsPath(facet), <<>>, force)
        IN  IF ~r1.ok THEN r1 ELSE IF ~r2.ok THEN r2 ELSE r3

(***************************************************************************)
(* emptyX.py and blank_art_bin.py: the standalone writers (no exists check)*)
(***************************************************************************)
STUBS_DEFAULT == 65536

\* variant: lookup 0 in place of -1
empty_entry_zero == Packi(0) \o Packi(0) \o Packi(0)

\* struct.pack("<iii", -1, 0, 0)
empty_entry == Packi(-1) \o Packi(0) \o Packi(0)

emptyX_main(f, blocks_x, blocks_y) ==
    LET entries == blocks_x * blocks_y
    IN  [f EXCEPT !["staidx0.mul"] = File(Run(empty_entry, entries)),
                  !["statics0.mul"] = File(<<>>)]

\* struct.pack("<III", NO_ART, 0, 0), written idx_entries times
StubRecord == PackI(NO_ART) \o PackI(ZERO32) \o PackI(ZERO32)

make_art_stubs(f, idx_entries) ==
    [f EXCEPT !["art.mul"] = File(<<>>),
              !["artidx.mul"] =
                  File(Run(StubRecord, idx_entries))]

(***************************************************************************)
(* Map2TXT.py: dimension inference, block addressing, block reader         *)
(***************************************************************************)
Entry(ax, ay, label) == [ax |-> ax, ay |-> ay, label |-> label]

\* variant: a table with an added leading entry of the same product as the next
KNOWN_BLOCK_DIMS_dup ==
    << Entry(1024, 384, "Wide rectangular"),
       Entry(768, 512, "Classic rectangular (map0/map1 style)"),
       Entry(896, 512, "Large rectangular (variant)"),
       Entry(288, 200, "Medium rectangular (map2-like)"),
       Entry(256, 256, "Square (map3-like)"),
       Entry(181, 181, "Small square (map4-like)"),
       Entry(512, 512, "Square test/dev") >>

\* in declaration order, which is the order the dict is iterated in
KNOWN_BLOCK_DIMS ==
    << Entry(768, 512, "Classic rectangular (map0/map1 style)"),
       Entry(896, 512, "Large rectangular (variant)"),
       Entry(288, 200, "Medium rectangular (map2-like)"),
       Entry(256, 256, "Square (map3-like)"),
       Entry(181, 181, "Small square (map4-like)"),
       Entry(512, 512, "Square test/dev") >>

\* int(math.sqrt(n)): the truncated square root (exact for n < 2^52)
RECURSIVE SqrtSearch(_, _, _)
SqrtSearch(n, lo, hi) ==
    IF lo >= hi THEN lo
    ELSE LET mid == (lo + hi + 1) \div 2
         IN  IF mid * mid <= n THEN SqrtSearch(n, mid, hi)
             ELSE SqrtSearch(n, lo, mid - 1)

\* variant: the square root rounded to nearest instead of truncated
IntSqrt_rounded(n) ==
    LET r == SqrtSearch(n, 0, Min(n, 46340))
    IN  IF n - r * r > r THEN r + 1 ELSE r

IntSqrt(n) == SqrtSearch(n, 0, Min(n, 46340))

DimsResult(ok, ax, ay, label, total) ==
    [ok |-> ok, across |-> ax, down |-> ay, label |-> label, total |-> total]

autodetect_block_dims(file_size) ==
    IF file_size % BLOCK_SIZE_BYTES # 0 THEN DimsResult(FALSE, 0, 0, "SystemExit", 0)
    ELSE
    LET total_blocks == file_size \div BLOCK_SIZE_BYTES
        hits == {i \in 1..Len(KNOWN_BLOCK_DIMS) :
                    KNOWN_BLOCK_DIMS[i].ax * KNOWN_BLOCK_DIMS[i].ay = total_blocks}
    IN  IF hits # {}
        THEN LET first == CHOOSE i \in hits : \A j \in hits : i <= j
             IN  DimsResult(TRUE, KNOWN_BLOCK_DIMS[first].ax, KNOWN_BLOCK_DIMS[first].ay,
                      KNOWN_BLOCK_DIMS[first].label, total_blocks)
        ELSE DimsResult(TRUE, IntSqrt(total_blocks), IntSqrt(total_blocks),
                  "Heuristic", total_blocks)

\* variant: row-major addressing, bx and by exchanged
block_offset_rowmajor(bx, by, blocks_down) == ((by * blocks_down) + bx) * BLOCK_SIZE_BYTES

block_offset(bx, by, blocks_down) == ((bx * blocks_down) + by) * BLOCK_SIZE_BYTES

Block(ok, e, header, cells) == [ok |-> ok, err |-> e, header |-> header, cells |-> cells]

\* variant: a short cell read ends the row instead of failing
RECURSIVE ReadRow_partial(_, _, _, _)
ReadRow_partial(f, pos, x, row) ==
    IF x = 8 THEN [ok |-> TRUE, row |-> row, pos |-> pos]
    ELSE LET data == FRead(f, pos, CELL_STRUCT_size)
         IN  IF Len(data) # CELL_STRUCT_size
             THEN [ok |-> TRUE, row |-> row, pos |-> pos + Len(data)]
             ELSE ReadRow_partial(f, pos + Len(data), x + 1,
                                  Append(row, CELL_STRUCT_unpack(data)))

\* the inner loop: for x in range(8), from column x with the row read so far
RECURSIVE ReadRow(_, _, _, _)
ReadRow(f, pos, x, row) ==
    IF x = 8 THEN [ok |-> TRUE, row |-> row, pos |-> pos]
    ELSE LET data == FRead(f, pos, CELL_STRUCT_size)
         IN  IF Len(data) # CELL_STRUCT_size
             THEN [ok |-> FALSE, row |-> row, pos |-> pos]
             ELSE ReadRow(f, pos + Len(data), x + 1,
                          Append(row, CELL_STRUCT_unpack(data)))

\* the outer loop: for y in range(8), from row y with the rows read so far
RECURSIVE ReadRows(_, _, _, _)
ReadRows(f, pos, y, cells) ==
    IF y = 8 THEN [ok |-> TRUE, cells |-> cells]
    ELSE LET r == ReadRow(f, pos, 0, <<>>)
         IN  IF ~r.ok THEN [ok |-> FALSE, cells |-> cells]
             ELSE ReadRows(f, r.pos, y + 1, Append(cells, r.row))

read_block(f, bx, by, blocks_down) ==
    LET start == block_offset(bx, by, blocks_down)
        header == FRead(f, start, 4)
    IN  IF Len(header) # 4
        THEN Block(FALSE, "Unexpected EOF in block header.", <<>>, <<>>)
        ELSE LET r == ReadRows(f, start + Len(header), 0, <<>>)
             IN  IF ~r.ok THEN Block(FALSE, "Unexpected EOF in block data.", <<>>, <<>>)
                 ELSE Block(TRUE, "", header, r.cells)

(***************************************************************************)
(* Inputs                                                                  *)
(***************************************************************************)
ValidSizes == {8 * k : k \in 1..MaxBlocks}
Sizes == ValidSizes \cup {0, 7}
Facets == {-1, 0, 255, 256}
Lands == {-1, 16383, 16384}
Zs == {-129, -128, 127, 128}
EntryCounts == 0..MaxEntries
HueGroups == {0, HUE_GROUPS_DEFAULT}
BlockCounts == 1..MaxBlocks
Coords == 0..MaxCoord
StrayBytes == {0, 1, 3, 4, 5, 195}

BaseNames == {"art.mul", "artidx.mul", "tiledata.mul", "hues.mul", "radarcol.mul"}
MapNames(facet) == {MapPath(facet), StaidxPath(facet), StaticsPath(facet)}
Outputs(facet) == BaseNames \cup MapNames(facet)
FileNames == BaseNames \cup UNION {MapNames(f) : f \in Facets}

\* a file that was there before the program ran
OLD == Run(<<170>>, 1)
FsWith(S) == [n \in FileNames |-> IF n \in S THEN File(OLD) ELSE Absent]

Args(force, facet, width, height, land, z, has, n, hg) ==
    [force |-> force, facet |-> facet, map_width |-> width, map_height |-> height,
     default_land |-> land, default_z |-> z,
     has_entries |-> has, artidx_entries |-> n, hue_groups |-> hg,
     blocks_x |-> 0, blocks_y |-> 0]

NoArgs == Args(FALSE, 0, 0, 0, 0, 0, FALSE, 0, 0)

NoRd == [op |-> "none", bx |-> 0, by |-> 0, blocks_down |-> 0, file_size |-> 0,
         ok |-> FALSE, err |-> "", header |-> <<>>, cells |-> <<>>,
         across |-> 0, down |-> 0, label |-> "", total |-> 0]

\* map files handed to the reader: k whole blocks followed by r stray bytes
InputBlock == Packi(0) \o Repeat(CELL_STRUCT_pack(258, -2), 64)
InputMap(k, r) == File(Run(InputBlock, k) \o Run(<<170>>, r))
KnownTotals == {KNOWN_BLOCK_DIMS[i].ax * KNOWN_BLOCK_DIMS[i].ay :
                    i \in 1..Len(KNOWN_BLOCK_DIMS)}
SmallTotals == 0..(MaxBlocks * MaxBlocks + 1)
LargeTotals == KnownTotals \cup {t - 1 : t \in KnownTotals} \cup {t + 1 : t \in KnownTotals}

(***************************************************************************)
(* Initial states: one program invocation on one directory                 *)
(***************************************************************************)
\* AxonometricLabv0.main, map parameters in and out of range
InitMainParams ==
    \E force \in BOOLEAN, facet \in Facets, w \in Sizes, h \in Sizes,
       lz \in {<<2, -1>>, <<16384, -1>>, <<2, 128>>} :
    \E S \in {{}, Outputs(facet)} :
        /\ prog = "main" /\ pc = "art"
        /\ args = Args(force, facet, w, h, lz[1], lz[2], TRUE, 1, HUE_GROUPS_DEFAULT)
        /\ fs = FsWith(S)

\* AxonometricLabv0.main, every combination of files already present
InitMainFiles ==
    \E force \in BOOLEAN, S \in SUBSET Outputs(0) :
        /\ prog = "main" /\ pc = "art"
        /\ args = Args(force, 0, 8, 8, 2, -1, TRUE, 1, HUE_GROUPS_DEFAULT)
        /\ fs = FsWith(S)

\* AxonometricLabv0.main, with and without --artidx-entries
InitMainCounts ==
    \E force \in BOOLEAN, has \in BOOLEAN, n \in EntryCounts, hg \in HueGroups :
    \E S \in {{}, {"artidx.mul"}} :
        /\ prog = "main" /\ pc = "art"
        /\ (~has => n = 0 /\ hg = HUE_GROUPS_DEFAULT /\ S = {})
        /\ args = Args(force, 0, 8, 8, 0, 0, has, n, hg)
        /\ fs = FsWith(S)

\* make_map_and_statics called on its own, parameters in and out of range
InitMapParams ==
    \E force \in BOOLEAN, facet \in Facets, w \in Sizes, h \in Sizes,
       land \in Lands, z \in Zs :
    \E S \in {{}, MapNames(facet)} :
        /\ prog = "make_map_and_statics" /\ pc = "map"
        /\ args = Args(force, facet, w, h, land, z, TRUE, 0, 0)
        /\ fs = FsWith(S)

\* make_map_and_statics, every combination of files already present
InitMapFiles ==
    \E force \in BOOLEAN, facet \in {0, 255}, w \in ValidSizes, h \in ValidSizes :
    \E S \in SUBSET MapNames(facet) :
        /\ prog = "make_map_and_statics" /\ pc = "map"
        /\ args = Args(force, facet, w, h, 2, -1, TRUE, 0, 0)
        /\ fs = FsWith(S)

\* make_map_and_statics with the geometry of a known-size table entry
InitKnown ==
    \E i \in 1..Len(KNOWN_BLOCK_DIMS) :
        /\ prog = "make_map_and_statics" /\ pc = "map"
        /\ args = Args(TRUE, 0, 8 * KNOWN_BLOCK_DIMS[i].ax, 8 * KNOWN_BLOCK_DIMS[i].ay,
                       2, -1, TRUE, 0, 0)
        /\ fs = FsWith({})

InitEmptyX ==
    \E S \in SUBSET MapNames(0) :
        /\ prog = "emptyX" /\ pc = "emptyX"
        /\ args = NoArgs
        /\ fs = FsWith(S)

InitStubs ==
    \E has \in BOOLEAN, n \in EntryCounts, S \in SUBSET {"art.mul", "artidx.mul"} :
        /\ prog = "make_art_stubs" /\ pc = "stubs"
        /\ (~has => n = 0 /\ S = {})
        /\ args = Args(FALSE, 0, 0, 0, 0, 0, has, n, 0)
        /\ fs = FsWith(S)

\* Map2TXT on a file of any size
InitReader ==
    \E k \in SmallTotals \cup LargeTotals, r \in StrayBytes :
        /\ (k \in LargeTotals => r \in {0, 1})
        /\ prog = "Map2TXT" /\ pc = "done"
        /\ args = NoArgs
        /\ fs = [FsWith({}) EXCEPT ![MapPath(0)] = InputMap(k, r)]

\* Map2TXT.main: no call made yet, nothing written to the output text
NoRun == [all_blocks |-> FALSE, file_size |-> 0,
          blocks_across |-> 0, blocks_down |-> 0, label |-> "", total_blocks |-> 0,
          bx |-> 0, by |-> 0, reads |-> <<>>, out |-> <<>>]

\* Map2TXT.main on a file of any size, with and without --all-blocks
InitMap2TXT ==
    \E k \in SmallTotals \cup LargeTotals, r \in StrayBytes, all_blocks \in BOOLEAN :
        /\ (k \in LargeTotals => r \in {0, 1} /\ ~all_blocks)
        /\ prog = "Map2TXT_main" /\ pc = "m2t_start"
        /\ args = NoArgs
        /\ fs = [FsWith({}) EXCEPT ![MapPath(0)] = InputMap(k, r)]
        /\ run = [NoRun EXCEPT !.all_blocks = all_blocks]

Init ==
    /\ \/ /\ \/ InitMainParams \/ InitMainFiles \/ InitMainCounts
             \/ InitMapParams \/ InitMapFiles \/ InitKnown
             \/ InitEmptyX \/ InitStubs \/ InitReader
          /\ run = NoRun
       \/ InitMap2TXT
    /\ fs0 = fs
    /\ err = ""
    /\ rd = NoRd

(***************************************************************************)
(* Actions                                                                 *)
(***************************************************************************)
\* a call returns and the caller goes on, or it raises and the program ends
Return(r, next) ==
    /\ fs' = r.fs
    /\ pc' = IF r.ok THEN next ELSE "failed"
    /\ err' = r.err
    /\ UNCHANGED <<fs0, prog, args, rd, run>>

\* argparse: default=0x14000 when --artidx-entries is not given
ArtidxEntries == IF args.has_entries THEN args.artidx_entries ELSE ARTIDX_DEFAULT

\* make_art_stubs(): idx_entries=0x10000 when not given
StubsEntries == IF args.has_entries THEN args.artidx_entries ELSE STUBS_DEFAULT

MakeArt ==
    /\ prog = "main" /\ pc = "art"
    /\ \E r \in {make_art_mul(fs, args.force)} : Return(r, "artidx")

MakeArtidx ==
    /\ prog = "main" /\ pc = "artidx"
    /\ \E r \in {make_artidx_mul(fs, args.force, ArtidxEntries)} : Return(r, "tiledata")

MakeTiledata ==
    /\ prog = "main" /\ pc = "tiledata"
    /\ \E r \in {make_tiledata_mul(fs, args.force)} : Return(r, "hues")

MakeHues ==
    /\ prog = "main" /\ pc = "hues"
    /\ \E r \in {make_hues_mul(fs, args.force, args.hue_groups)} : Return(r, "radarcol")

MakeRadarcol ==
    /\ prog = "main" /\ pc = "radarcol"
    /\ \E r \in {make_radarcol_mul(fs, args.force, RADAR_ENTRIES)} : Return(r, "map")

MakeMapAndStatics ==
    /\ prog \in {"main", "make_map_and_statics"} /\ pc = "map"
    /\ \E r \in {make_map_and_statics(fs, args.force, args.facet, args.map_width,
                                      args.map_height, args.default_land,
                                      args.default_z)} :
          Return(r, "done")

\* emptyX.py, on a fresh directory or on the output of make_map_and_statics
EmptyX ==
    /\ \/ prog = "emptyX" /\ pc = "emptyX"
       \/ prog = "make_map_and_statics" /\ pc = "done" /\ args.facet = 0
          /\ rd.op = "none" /\ args.map_width \in ValidSizes
    /\ \E bx \in BlockCounts, by \in BlockCounts :
        /\ fs' = emptyX_main(fs, bx, by)
        /\ args' = [args EXCEPT !.blocks_x = bx, !.blocks_y = by]
    /\ pc' = "emptyX_done"
    /\ UNCHANGED <<fs0, prog, err, rd, run>>

ArtStubs ==
    /\ prog = "make_art_stubs" /\ pc = "stubs"
    /\ fs' = make_art_stubs(fs, StubsEntries)
    /\ pc' = "done"
    /\ UNCHANGED <<fs0, prog, args, err, rd, run>>

\* the map file the reader is pointed at
ReaderInput == fs[MapPath(args.facet)]

ReaderReady ==
    /\ pc = "done"
    /\ prog \in {"make_map_and_statics", "Map2TXT"}
    /\ rd.op = "none"
    /\ ReaderInput.exists

\* on a map just written the reader is given its geometry, else any blocks_down
BlocksDownChoices ==
    IF prog = "make_map_and_statics" THEN {args.map_height \div 8} ELSE BlockCounts

Autodetect ==
    /\ ReaderReady
    /\ \E d \in {autodetect_block_dims(FileLen(ReaderInput))} :
          rd' = [NoRd EXCEPT !.op = "autodetect", !.file_size = FileLen(ReaderInput),
                             !.ok = d.ok, !.across = d.across, !.down = d.down,
                             !.label = d.label, !.total = d.total]
    /\ UNCHANGED <<fs, fs0, prog, args, pc, err, run>>

ReadBlock ==
    /\ ReaderReady
    /\ \E bx \in Coords, by \in Coords, blocks_down \in BlocksDownChoices :
       \E b \in {read_block(ReaderInput, bx, by, blocks_down)} :
          rd' = [NoRd EXCEPT !.op = "read_block", !.bx = bx, !.by = by,
                             !.blocks_down = blocks_down,
                             !.file_size = FileLen(ReaderInput),
                             !.ok = b.ok, !.err = b.err,
                             !.header = b.header, !.cells = b.cells]
    /\ UNCHANGED <<fs, fs0, prog, args, pc, err, run>>

\* Map2TXT.main up to the opening of the files: stat, autodetect_block_dims
Map2TxtStart ==
    /\ prog = "Map2TXT_main" /\ pc = "m2t_start"
    /\ \E d \in {autodetect_block_dims(FileLen(ReaderInput))} :
          IF ~d.ok
          THEN /\ pc' = "failed" /\ err' = d.label
               /\ run' = [run EXCEPT !.file_size = FileLen(ReaderInput)]
          ELSE /\ run' = [run EXCEPT !.file_size = FileLen(ReaderInput),
                                     !.blocks_across = d.across, !.blocks_down = d.down,
                                     !.label = d.label, !.total_blocks = d.total]
               /\ err' = ""
               \* range(blocks_across) / range(blocks_down) may be empty
               /\ pc' = IF ~run.all_blocks THEN "m2t_single"
                        ELSE IF d.across <= 0 \/ d.down <= 0 THEN "done"
                        ELSE "m2t_sweep"
    /\ UNCHANGED <<fs, fs0, prog, args, rd>>

\* one turn of the nested loops: read_block(f, bx, by, blocks_down), then write
Map2TxtSweep ==
    /\ prog = "Map2TXT_main" /\ pc = "m2t_sweep"
    /\ \E b \in {read_block(ReaderInput, run.bx, run.by, run.blocks_down)} :
       LET seen == Append(run.reads, block_offset(run.bx, run.by, run.blocks_down))
           last_by == run.by + 1 >= run.blocks_down
           last_bx == run.bx + 1 >= run.blocks_across
       IN  IF ~b.ok
           THEN /\ pc' = "failed" /\ err' = b.err
                /\ run' = [run EXCEPT !.reads = seen]
           ELSE /\ run' = [run EXCEPT
                              !.reads = seen,
                              !.out = Append(@, [bx |-> run.bx, by |-> run.by,
                                                 cells |-> b.cells]),
                              !.by = IF last_by THEN 0 ELSE @ + 1,
                              !.bx = IF last_by THEN @ + 1 ELSE @]
                /\ pc' = IF last_by /\ last_bx THEN "done" ELSE "m2t_sweep"
                /\ err' = ""
    /\ UNCHANGED <<fs, fs0, prog, args, rd>>

\* default mode: just block (0,0)
Map2TxtSingle ==
    /\ prog = "Map2TXT_main" /\ pc = "m2t_single"
    /\ \E b \in {read_block(ReaderInput, 0, 0, run.blocks_down)} :
       LET seen == Append(run.reads, block_offset(0, 0, run.blocks_down))
       IN  IF ~b.ok
           THEN /\ pc' = "failed" /\ err' = b.err
                /\ run' = [run EXCEPT !.reads = seen]
           ELSE /\ pc' = "done" /\ err' = ""
                /\ run' = [run EXCEPT !.reads = seen,
                                      !.out = Append(@, [bx |-> 0, by |-> 0,
                                                         cells |-> b.cells])]
    /\ UNCHANGED <<fs, fs0, prog, args, rd>>

Next ==
    \/ MakeArt \/ MakeArtidx \/ MakeTiledata \/ MakeHues \/ MakeRadarcol
    \/ MakeMapAndStatics \/ EmptyX \/ ArtStubs \/ Autodetect \/ ReadBlock
    \/ Map2TxtStart \/ Map2TxtSweep \/ Map2TxtSingle

Spec == Init /\ [][Next]_vars

(***************************************************************************)
(* Vocabulary of the properties                                            *)
(***************************************************************************)
MapParamsValid ==
    /\ args.map_width > 0 /\ args.map_width % 8 = 0
    /\ args.map_height > 0 /\ args.map_height % 8 = 0
    /\ args.facet >= 0 /\ args.facet <= 255
    /\ args.default_land >= 0 /\ args.default_land <= 16383
    /\ args.default_z >= -128 /\ args.default_z <= 127

BlocksX == args.map_width \div 8
BlocksY == args.map_height \div 8

\* make_map_and_statics was called on its own and has returned or raised
MapCallOver == prog = "make_map_and_statics" /\ pc \in {"done", "failed"}

\* every one of the three map files was written by this invocation
WroteMapFiles == \A n \in MapNames(args.facet) : fs[n].exists /\ fs[n] # fs0[n]

MapFilesUntouched == \A n \in MapNames(args.facet) : fs[n] = fs0[n]

CompleteBlock(header, cells) ==
    /\ Len(header) = 4
    /\ Len(cells) = 8
    /\ \A y \in 1..8 : Len(cells[y]) = 8

\* the i-th 12-byte record of a file, decoded as three unsigned 32-bit values
Record12(f, i) ==
    LET b == FRead(f, 12 * i, 12)
    IN  << UnpackI(SubSeq(b, 1, 4)), UnpackI(SubSeq(b, 5, 8)), UnpackI(SubSeq(b, 9, 12)) >>

AllSentinel(f, n) == \A i \in 0..(n - 1) : Record12(f, i) = << NO_ART, ZERO32, ZERO32 >>

\* the art-index writer of the invocation has returned
ArtidxWrittenByMain ==
    prog = "main" /\ pc \in {"tiledata", "hues", "radarcol", "map", "done"}
ArtidxWrittenByStubs == prog = "make_art_stubs" /\ pc = "done"

(***************************************************************************)
(* C1: after make_map_and_statics has written the map with default tile T  *)
(* and altitude A, read_block with blocks_down = height/8 at any in-range  *)
(* (bx, by) returns a zero header and 8 rows of 8 cells, all equal (T, A). *)
(***************************************************************************)
C1_Case ==
    /\ prog = "make_map_and_statics" /\ pc = "done"
    /\ rd.op = "read_block"
    /\ rd.blocks_down = BlocksY
    /\ rd.bx < BlocksX /\ rd.by < BlocksY

C1_RoundTrip ==
    C1_Case =>
        /\ rd.ok
        /\ rd.header = <<0, 0, 0, 0>>
        /\ CompleteBlock(rd.header, rd.cells)
        /\ \A y \in 1..8 : \A x \in 1..8 :
               rd.cells[y][x] = << args.default_land, args.default_z >>

C1_Witness ==
    /\ C1_Case
    /\ rd.bx = 1 /\ rd.by = 1
    /\ args.default_land = 16383 /\ args.default_z = -128
    /\ rd.ok /\ rd.cells[8][8] = << 16383, -128 >>

(***************************************************************************)
(* C2 as stated: make_map_and_statics writes its three files if and only   *)
(* if all five parameters are in range, and with a parameter out of range  *)
(* it fails and leaves map, staidx and statics as they were.               *)
(***************************************************************************)
C2_Original ==
    MapCallOver =>
        /\ WroteMapFiles <=> MapParamsValid
        /\ ~MapParamsValid => pc = "failed" /\ MapFilesUntouched

(***************************************************************************)
(* C2 amended: make_map_and_statics writes its three files if and only if  *)
(* all five parameters are in range and, in addition, overwrite is         *)
(* permitted or none of the three destinations exists; with a parameter    *)
(* out of range it fails with a ValueError and no file is created or       *)
(* modified.                                                               *)
(***************************************************************************)
C2_Amended ==
    MapCallOver =>
        /\ WroteMapFiles <=>
              /\ MapParamsValid
              /\ args.force \/ \A n \in MapNames(args.facet) : ~fs0[n].exists
        /\ WroteMapFiles <=> pc = "done"
        /\ ~MapParamsValid =>
              /\ pc = "failed"
              /\ err \in {"ValueError:map-width", "ValueError:map-height",
                          "ValueError:facet", "ValueError:default-land",
                          "ValueError:default-z"}
              /\ fs = fs0

C2_Witness ==
    /\ MapCallOver
    /\ args.map_width = 8 /\ args.map_height = 8 /\ args.facet = 0
    /\ args.default_land = 16383 /\ args.default_z = 128
    /\ args.force
    /\ \A n \in MapNames(0) : fs0[n].exists
    /\ pc = "failed" /\ err = "ValueError:default-z" /\ fs = fs0

(***************************************************************************)
(* C3: in one invocation of main, when a map parameter is invalid none of  *)
(* the eight output files is created or changed, at any point of the run,  *)
(* and the invocation ends in failure.                                     *)
(***************************************************************************)
C3_ValidateBeforeWrite ==
    (prog = "main" /\ ~MapParamsValid) =>
        /\ \A n \in Outputs(args.facet) : fs[n] = fs0[n]
        /\ pc # "done"

(***************************************************************************)
(* C4: in one invocation of main, when overwrite is not permitted and at   *)
(* least one destination already exists, no output file is created,        *)
(* truncated or modified, and the invocation ends in failure.              *)
(***************************************************************************)
C4_ExistsCheckedFirst ==
    (/\ prog = "main"
     /\ ~args.force
     /\ \E n \in Outputs(args.facet) : fs0[n].exists) =>
        /\ \A n \in Outputs(args.facet) : fs[n] = fs0[n]
        /\ pc # "done"

(***************************************************************************)
(* C5: for every entry (across, down) of the known-size table, the map     *)
(* written with blocks_x = across and blocks_y = down has a size for which *)
(* autodetect_block_dims returns (across, down), that entry's own label    *)
(* (not the heuristic one) and total_blocks = across * down; no earlier    *)
(* entry of the table has the same product.                                *)
(***************************************************************************)
C5_Case(i) ==
    /\ prog = "make_map_and_statics" /\ pc = "done"
    /\ rd.op = "autodetect"
    /\ BlocksX = KNOWN_BLOCK_DIMS[i].ax
    /\ BlocksY = KNOWN_BLOCK_DIMS[i].ay

C5_KnownSizesRecovered ==
    \A i \in 1..Len(KNOWN_BLOCK_DIMS) :
        C5_Case(i) =>
            /\ rd.ok
            /\ rd.across = KNOWN_BLOCK_DIMS[i].ax
            /\ rd.down = KNOWN_BLOCK_DIMS[i].ay
            /\ rd.label = KNOWN_BLOCK_DIMS[i].label
            /\ rd.label # "Heuristic"
            /\ rd.total = KNOWN_BLOCK_DIMS[i].ax * KNOWN_BLOCK_DIMS[i].ay
            /\ rd.file_size = rd.total * 196
            /\ \A j \in 1..(i - 1) :
                   KNOWN_BLOCK_DIMS[j].ax * KNOWN_BLOCK_DIMS[j].ay # rd.total

C5_Witness ==
    /\ C5_Case(1)
    /\ rd.ok /\ rd.across = 768 /\ rd.down = 512 /\ rd.file_size = 77070336

(***************************************************************************)
(* C6: for a file size that is a multiple of 196 whose total_blocks is the *)
(* product of no table entry, autodetect_block_dims returns both           *)
(* dimensions equal to the truncated square root of total_blocks, the      *)
(* unchanged total_blocks and the label "Heuristic", which no table entry  *)
(* carries; for a size that is not a multiple of 196 it fails.             *)
(***************************************************************************)
C6_NoTableMatch ==
    \A i \in 1..Len(KNOWN_BLOCK_DIMS) :
        KNOWN_BLOCK_DIMS[i].ax * KNOWN_BLOCK_DIMS[i].ay * 196 # rd.file_size

C6_Heuristic ==
    rd.op = "autodetect" =>
        /\ rd.file_size % 196 # 0 => ~rd.ok
        /\ (rd.file_size % 196 = 0 /\ C6_NoTableMatch) =>
              /\ rd.ok
              /\ rd.across = rd.down
              /\ rd.across >= 0
              /\ rd.across * rd.across <= rd.total
              /\ (rd.across + 1) * (rd.across + 1) > rd.total
              /\ rd.total * 196 = rd.file_size
              /\ rd.label = "Heuristic"
              /\ \A i \in 1..Len(KNOWN_BLOCK_DIMS) : KNOWN_BLOCK_DIMS[i].label # rd.label

C6_Witness ==
    /\ rd.op = "autodetect" /\ rd.ok
    /\ rd.file_size = 32760 * 196
    /\ rd.across = 180 /\ rd.down = 180 /\ rd.total = 32760 /\ rd.label = "Heuristic"

(***************************************************************************)
(* C7: for a geometry (w, h) of positive multiples of 8 the map file is    *)
(* (w/8)*(h/8)*196 bytes long and the static-index file (w/8)*(h/8)*12     *)
(* bytes long, one (-1, 0, 0) entry per block; emptyX run with             *)
(* blocks_x = w/8 and blocks_y = h/8 writes the same static-index bytes.   *)
(***************************************************************************)
EmptyStaidxBytes == <<255, 255, 255, 255, 0, 0, 0, 0, 0, 0, 0, 0>>

C7_Sizes ==
    (prog \in {"main", "make_map_and_statics"} /\ pc = "done") =>
        /\ FileLen(fs[MapPath(args.facet)]) = BlocksX * BlocksY * 196
        /\ FileLen(fs[StaidxPath(args.facet)]) = BlocksX * BlocksY * 12
        /\ FileLen(fs[StaticsPath(args.facet)]) = 0
        /\ args.map_width \in ValidSizes =>
              \A k \in 0..(BlocksX * BlocksY - 1) :
                  FRead(fs[StaidxPath(args.facet)], 12 * k, 12) = EmptyStaidxBytes

\* emptyX runs on the output of make_map_and_statics with the same block counts
C7_SameGeometry ==
    /\ prog = "make_map_and_statics" /\ pc = "done" /\ pc' = "emptyX_done"
    /\ args'.blocks_x = BlocksX /\ args'.blocks_y = BlocksY

C7_EmptyXStep ==
    C7_SameGeometry =>
        FileBytes(fs'[StaidxPath(0)]) = FileBytes(fs[StaidxPath(0)])

C7_MapAndStaidxSizes == [](C7_Sizes) /\ [][C7_EmptyXStep]_vars

C7_Witness ==
    /\ prog = "make_map_and_statics" /\ pc = "emptyX_done"
    /\ args.map_width = 16 /\ args.map_height = 8
    /\ args.blocks_x = 2 /\ args.blocks_y = 1
    /\ FileLen(fs[MapPath(0)]) = 392
    /\ FileBytes(fs[StaidxPath(0)]) = EmptyStaidxBytes \o EmptyStaidxBytes

(***************************************************************************)
(* C8: read_block returns a complete block (4-byte header, 8 rows of 8     *)
(* cells) exactly when 196 bytes are available from the block's offset;    *)
(* otherwise it fails, at the header when fewer than 4 bytes are there and *)
(* at a cell otherwise, and returns no cells.                              *)
(***************************************************************************)
C8_Available == rd.file_size - ((rd.bx * rd.blocks_down) + rd.by) * 196

C8_CompleteOrFail ==
    rd.op = "read_block" =>
        /\ rd.ok <=> C8_Available >= 196
        /\ rd.ok => CompleteBlock(rd.header, rd.cells)
        /\ ~rd.ok =>
              /\ rd.header = <<>> /\ rd.cells = <<>>
              /\ rd.err = IF C8_Available < 4
                          THEN "Unexpected EOF in block header."
                          ELSE "Unexpected EOF in block data."

C8_Witness ==
    /\ rd.op = "read_block" /\ ~rd.ok
    /\ C8_Available = 195
    /\ rd.bx = 1 /\ rd.blocks_down = 2 /\ rd.by = 1 /\ rd.file_size = 783
    /\ rd.err = "Unexpected EOF in block data."

(***************************************************************************)
(* C9: for an entry count N >= 0 given by the caller, the art-index file   *)
(* is exactly 12*N bytes long and is N records each equal to the sentinel  *)
(* (0xFFFFFFFF, 0, 0), and the art data file is empty; for both writers.   *)
(***************************************************************************)
C9_ArtIndex ==
    ((ArtidxWrittenByMain \/ ArtidxWrittenByStubs) /\ args.has_entries) =>
        /\ fs["artidx.mul"].exists
        /\ FileLen(fs["artidx.mul"]) = 12 * args.artidx_entries
        /\ AllSentinel(fs["artidx.mul"], args.artidx_entries)
        /\ fs["art.mul"].exists
        /\ FileLen(fs["art.mul"]) = 0

C9_Witness ==
    /\ ArtidxWrittenByMain /\ pc = "done"
    /\ args.has_entries /\ args.artidx_entries = 2
    /\ fs0["artidx.mul"].exists
    /\ FileLen(fs["artidx.mul"]) = 24

(***************************************************************************)
(* C10 as stated: with no entry count given, every art-index writer emits  *)
(* exactly 0x14000 sentinel records.                                       *)
(***************************************************************************)
C10_Original ==
    ((ArtidxWrittenByMain \/ ArtidxWrittenByStubs) /\ ~args.has_entries) =>
        FileLen(fs["artidx.mul"]) = 12 * 81920

(***************************************************************************)
(* C10 amended: with no entry count given, make_artidx_mul (through main)  *)
(* emits exactly 0x14000 sentinel records, and make_art_stubs emits        *)
(* exactly 0x10000 sentinel records.                                       *)
(***************************************************************************)
C10_Records == IF prog = "main" THEN 81920 ELSE 65536

\* the art-index writer has just returned
C10_JustWritten == (prog = "main" /\ pc = "tiledata") \/ ArtidxWrittenByStubs

C10_Amended ==
    /\ ((ArtidxWrittenByMain \/ ArtidxWrittenByStubs) /\ ~args.has_entries) =>
           /\ fs["artidx.mul"].exists
           /\ FileLen(fs["artidx.mul"]) = 12 * C10_Records
    /\ (C10_JustWritten /\ ~args.has_entries) =>
           AllSentinel(fs["artidx.mul"], C10_Records)

C10_Witness ==
    /\ ArtidxWrittenByMain /\ pc = "tiledata" /\ ~args.has_entries
    /\ FileLen(fs["artidx.mul"]) = 983040

(***************************************************************************)
(* C11: in full-sweep mode (--all-blocks) the reader dumps every block of  *)
(* the map: for a file size that is a multiple of 196, the run completes   *)
(* and the number of blocks read and written out is file_size / 196.       *)
(***************************************************************************)
SweepOver == prog = "Map2TXT_main" /\ run.all_blocks /\ pc \in {"done", "failed"}

C11_DumpsEveryBlock ==
    (SweepOver /\ run.file_size % 196 = 0) =>
        /\ pc = "done"
        /\ Len(run.out) = run.file_size \div 196
        /\ Len(run.reads) = run.file_size \div 196

(***************************************************************************)
(* C12: block addressing is column-major and the full sweep follows it:    *)
(* the k-th block read (k from 0) is at byte offset k*196, so the offsets  *)
(* visited increase by 196 at every read, and a completed sweep has        *)
(* visited every block-aligned offset below blocks_across*blocks_down*196  *)
(* exactly once; the offset is injective on the in-range coordinates.      *)
(***************************************************************************)
Sweeping == prog = "Map2TXT_main" /\ run.all_blocks

C12_InRange == (0..(run.blocks_across - 1)) \X (0..(run.blocks_down - 1))

C12_ColumnMajorSweep ==
    Sweeping =>
        /\ \A k \in 1..Len(run.reads) : run.reads[k] = (k - 1) * 196
        /\ \A k \in 1..Len(run.out) :
               run.reads[k] = ((run.out[k].bx * run.blocks_down) + run.out[k].by) * 196
        /\ pc = "done" =>
              /\ Len(run.reads) = run.blocks_across * run.blocks_down
              /\ \A c \in C12_InRange :
                     Cardinality({k \in 1..Len(run.reads) :
                         run.reads[k] = ((c[1] * run.blocks_down) + c[2]) * 196}) = 1
        /\ \A c \in C12_InRange : \A e \in C12_InRange :
               block_offset(c[1], c[2], run.blocks_down)
                   = block_offset(e[1], e[2], run.blocks_down) => c = e

C12_Witness ==
    /\ Sweeping /\ pc = "done"
    /\ run.blocks_across = 2 /\ run.blocks_down = 2
    /\ run.reads = <<0, 196, 392, 588>>
    /\ run.out[2].bx = 0 /\ run.out[2].by = 1
    /\ run.out[3].bx = 1 /\ run.out[3].by = 0

(***************************************************************************)
(* C13: for a map file whose size is a positive multiple of 196, every     *)
(* read_block call the reader issues with the inferred dimensions (block   *)
(* (0,0) in single-block mode, every block of the sweep in full-sweep      *)
(* mode) lies inside the file, blocks_across*blocks_down <= total_blocks,  *)
(* and the reader never fails with an unexpected end of file.              *)
(***************************************************************************)
C13_Case ==
    /\ prog = "Map2TXT_main" /\ pc # "m2t_start"
    /\ run.file_size > 0 /\ run.file_size % 196 = 0

C13_ReadsInsideFile ==
    C13_Case =>
        /\ pc # "failed"
        /\ err = ""
        /\ run.blocks_across * run.blocks_down <= run.total_blocks
        /\ run.blocks_across * run.blocks_down * 196 <= run.file_size
        /\ run.blocks_across >= 1 /\ run.blocks_down >= 1
        /\ \A k \in 1..Len(run.reads) : run.reads[k] + 196 <= run.file_size
        /\ Len(run.out) = Len(run.reads)

C13_Witness ==
    /\ C13_Case /\ run.all_blocks /\ pc = "done"
    /\ run.file_size = 980 /\ run.total_blocks = 5
    /\ run.label = "Heuristic"
    /\ Len(run.reads) = 4 /\ run.reads[4] = 588

====
